---- MODULE Spec2Model ----
(***************************************************************************)
(* A model of the tool-execution and result-normalisation pipeline of      *)
(* soluble-cli: the CI environment collector (GetCIEnv,                    *)
(* normalizeGitRemote), the docker runner (hasDocker, DockerTool.run,      *)
(* getArgs, appendProxyEnv), the adapters' parseResults, and the Result    *)
(* model (UpdateFileFingerprints, isMultiDocument, getFindingsJNode).      *)
(*                                                                         *)
(* A Go string is a sequence of one-character strings, so that the string  *)
(* functions the code calls (Index, Contains, HasPrefix, ToUpper, ...)     *)
(* are computed and not assumed.  Go's nil error is the value NoError.     *)
(***************************************************************************)
EXTENDS Integers, Sequences, FiniteSets, TLC

VARIABLES
    \* normalizeGitRemote
    remote,       \* the argument s
    normOut,      \* the returned string (or Panic)
    normPc,       \* "init" before the call, "done" after
    \* GetCIEnv
    environ,      \* os.Environ(): the process environment, "NAME=value" texts
    gitOut,       \* what the i-th metadata command answers: [err, out]
    hostname,     \* what os.Hostname() answers: [err, name]
    ciEnv,        \* what the last call of GetCIEnv returned: [panic, values]
    ciPrev,       \* what the call before the last returned
    ciCalls,      \* the calls of GetCIEnv made: 0, 1, or 2 for two and more
    \* DockerTool
    getenv,       \* os.Getenv: the value of each proxy variable ("" when unset)
    tool,         \* the DockerTool t
    skipPull,     \* the argument of t.run
    dpc,          \* where t.run is: "start", "probed", "pulled", "done"
    execLog,      \* the commands executed so far, each an argument vector
    probeCode,    \* the exit code of `docker info` (-1: it never started)
    probeErr,     \* what hasDocker returned
    pullFailed,   \* whether `docker pull` was run and failed
    runOut,       \* what t.run returned: [out, err]
    argv,         \* what the last call of t.getArgs returned
    proxied,      \* the last call of appendProxyEnv: [called, args, out]
    container,    \* what the container will do: [code, stdout]
    \* parseResults of the adapters
    rawEntries,   \* the entries the tool reported (hadolint's array, terrascan's
                  \* results.violations)
    adapter,      \* the Tool t: [dir, excluded], its directory and excluded paths
    parsed,       \* the last call of parseResults: [tool, result]
    \* Result.UpdateFileFingerprints
    result,       \* the Result r
    files,        \* the file system: the file of each absolute path
    computed,     \* the partial fingerprint ComputePartialFingerprints derives
                  \* for each Finding
    probes,       \* the calls of isMultiDocument made: [path, md]
    updated,      \* UpdateFileFingerprints has returned
    \* Results.getFindingsJNode
    results,      \* the Results of a run, in their order
    findingsNode, \* the last call of getFindingsJNode: [called, node, err]
    \* Result.Upload (of the Result r above)
    repoState,    \* [root, files]: what inventory.FindRepoRoot answers and the
                  \* state of each file under it
    response,     \* what client.XCPPost answers: [err, assessment]
    upload,       \* the last call of Upload: [done, err, options]
    assessmentsNode, \* the documents combined after it: [called, assessments,
                  \* findings]
    \* Run of the adapters (with t and the report of parseResults above)
    toolExit,     \* how the tool ends: [setup, err, out, version]
    runReturn     \* what Run returned: [done, tool, hasResult, result, err]

remoteVars == <<remote, normOut, normPc>>

envVars == <<environ, gitOut, hostname, ciEnv, ciPrev, ciCalls>>

dockerVars ==
    <<getenv, tool, skipPull, dpc, execLog, probeCode, probeErr, pullFailed, runOut, argv,
      proxied, container>>

parseVars == <<rawEntries, adapter, parsed>>

fingerprintVars == <<result, files, computed, probes, updated>>

combinedVars == <<results, findingsNode>>

uploadVars == <<repoState, response, upload, assessmentsNode>>

adapterVars == <<toolExit, runReturn>>

vars ==
    <<remoteVars, envVars, dockerVars, parseVars, fingerprintVars, combinedVars,
      uploadVars, adapterVars>>

\* What an action of one part of the program leaves alone: the other parts.
Others(part) ==
    /\ IF part = "remote" THEN TRUE ELSE UNCHANGED remoteVars
    /\ IF part = "env" THEN TRUE ELSE UNCHANGED envVars
    /\ IF part = "docker" THEN TRUE ELSE UNCHANGED dockerVars
    /\ IF part \in {"parse", "adapters"} THEN TRUE ELSE UNCHANGED parseVars
    /\ IF part \in {"fingerprints", "upload"} THEN TRUE ELSE UNCHANGED fingerprintVars
    /\ IF part = "combined" THEN TRUE ELSE UNCHANGED combinedVars
    /\ IF part = "upload" THEN TRUE ELSE UNCHANGED uploadVars
    /\ IF part = "adapters" THEN TRUE ELSE UNCHANGED adapterVars

-----------------------------------------------------------------------------
(* Bounds of the model.                                                    *)

\* The longest HOST and PATH texts a git remote is assembled from.
MaxRemoteParts == 2

-----------------------------------------------------------------------------
(* Go strings: package strings, on sequences of characters.                *)

LowerLetters ==
    <<"a","b","c","d","e","f","g","h","i","j","k","l","m",
      "n","o","p","q","r","s","t","u","v","w","x","y","z">>

UpperLetters ==
    <<"A","B","C","D","E","F","G","H","I","J","K","L","M",
      "N","O","P","Q","R","S","T","U","V","W","X","Y","Z">>

\* s[lo:hi] of Go, for 0 <= lo <= hi <= len(s).
Slice(s, lo, hi) == SubSeq(s, lo + 1, hi)

\* Whether sub occurs in s at the 0-based offset i.
OccursAt(s, sub, i) ==
    /\ i >= 0
    /\ i + Len(sub) <= Len(s)
    /\ \A j \in 1..Len(sub) : s[i + j] = sub[j]

\* strings.Index: the offset of the first occurrence of sub in s, or -1.
Index(s, sub) ==
    LET hits == {i \in 0..Len(s) : OccursAt(s, sub, i)}
    IN  IF hits = {} THEN -1
        ELSE CHOOSE i \in hits : \A j \in hits : i <= j

\* strings.LastIndex: the offset of the last occurrence of sub in s, or -1.
LastIndex(s, sub) ==
    LET hits == {i \in 0..Len(s) : OccursAt(s, sub, i)}
    IN  IF hits = {} THEN -1
        ELSE CHOOSE i \in hits : \A j \in hits : i >= j

\* strings.Contains.
Contains(s, sub) == \E i \in 0..Len(s) : OccursAt(s, sub, i)

\* strings.HasPrefix.
HasPrefix(s, p) == OccursAt(s, p, 0)

\* strings.HasSuffix.
HasSuffix(s, p) == OccursAt(s, p, Len(s) - Len(p))

\* strings.Replace(s, old, new, 1): the first occurrence of old replaced.
ReplaceFirst(s, old, new) ==
    LET i == Index(s, old)
    IN  IF i < 0 THEN s
        ELSE Slice(s, 0, i) \o new \o Slice(s, i + Len(old), Len(s))

\* The upper-case letter of each lower-case letter, and the reverse.
UpperOf ==
    [c \in {LowerLetters[i] : i \in 1..26} |->
        UpperLetters[CHOOSE i \in 1..26 : LowerLetters[i] = c]]

LowerOf ==
    [c \in {UpperLetters[i] : i \in 1..26} |->
        LowerLetters[CHOOSE i \in 1..26 : UpperLetters[i] = c]]

ToUpperChar(c) == IF c \in DOMAIN UpperOf THEN UpperOf[c] ELSE c

ToLowerChar(c) == IF c \in DOMAIN LowerOf THEN LowerOf[c] ELSE c

\* strings.ToUpper.
ToUpper(s) == [i \in 1..Len(s) |-> ToUpperChar(s[i])]

\* strings.ToLower.
ToLower(s) == [i \in 1..Len(s) |-> ToLowerChar(s[i])]

IsSpace(c) == c \in {" ", "\n", "\t", "\r"}

\* strings.TrimSpace: leading and trailing white space removed.
TrimSpace(s) ==
    LET keep == {i \in 1..Len(s) : ~IsSpace(s[i])}
    IN  IF keep = {} THEN <<>>
        ELSE SubSeq(s, CHOOSE i \in keep : \A j \in keep : i <= j,
                       CHOOSE i \in keep : \A j \in keep : i >= j)

\* strconv.Itoa, and %d of fmt: the decimal text of an integer.
Digits == <<"0","1","2","3","4","5","6","7","8","9">>

RECURSIVE Itoa(_)
Itoa(n) ==
    IF n < 0 THEN <<"-">> \o Itoa(-n)
    ELSE IF n < 10 THEN <<Digits[n + 1]>>
    ELSE Itoa(n \div 10) \o <<Digits[(n % 10) + 1]>>

\* The concatenation of a sequence of strings.
RECURSIVE Concat(_)
Concat(ss) == IF ss = <<>> THEN <<>> ELSE Head(ss) \o Concat(Tail(ss))

-----------------------------------------------------------------------------
(* normalizeGitRemote.                                                     *)

\* What a call returns when a slice expression s[lo:hi] has lo > hi: the Go
\* runtime panics ("slice bounds out of range") and the call returns nothing.
Panic == <<"panic: slice bounds out of range">>

normalizeGitRemote(s) ==
    LET at == Index(s, <<"@">>)
        dotgit == LastIndex(s, <<".","g","i","t">>)
    IN  IF at > 0 /\ dotgit > 0
        THEN IF at + 1 > dotgit
             THEN Panic
             ELSE ReplaceFirst(Slice(s, at + 1, dotgit), <<":">>, <<"/">>)
        ELSE s

\* The texts git can answer `git ls-remote --get-url` with, assembled as
\* prefix, host, separator, path, suffix.
RemotePrefixes ==
    { <<>>,
      <<"g","i","t","@">>,
      <<"@">>,
      <<"h","t","t","p",":","/","/">>,
      <<"h","t","t","p","s",":","/","/">>,
      <<"h","t","t","p","s",":","/","/","u","@">>,
      <<"s","s","h",":","/","/","g","i","t","@">> }

HostLabels == { <<"h">>, <<"m","y">>, <<".","g","i","t","l","a","b">>, <<".","i","o">> }

PathLabels == { <<"o">>, <<"/">>, <<"p">>, <<".","g","i","t">> }

RECURSIVE Texts(_, _)
Texts(labels, n) ==
    IF n = 0 THEN {<<>>}
    ELSE LET shorter == Texts(labels, n - 1)
         IN  shorter \cup {t \o l : t \in shorter, l \in labels}

RemoteHosts == Texts(HostLabels, MaxRemoteParts) \ {<<>>}

RemotePaths == Texts(PathLabels, MaxRemoteParts)

\* What separates host and path: ":" in an scp-style remote, ":" (a port
\* follows) or "/" in a URL.
RemoteSeps(p) ==
    IF p \in {<<>>, <<"g","i","t","@">>, <<"@">>} THEN {<<":">>}
    ELSE {<<":">>, <<"/">>}

Remotes ==
    { Concat(<<x[1], x[2], x[3], x[4], x[5]>>) :
        x \in { y \in RemotePrefixes \X RemoteHosts \X {<<":">>, <<"/">>}
                      \X RemotePaths \X {<<>>, <<".","g","i","t">>} :
                  y[3] \in RemoteSeps(y[1]) } }
    \cup { <<>> }

InitRemote ==
    /\ remote \in Remotes
    /\ normOut = <<>>
    /\ normPc = "init"

\* GetCIEnv line 210: the call normalizeGitRemote(values[...GIT_REMOTE]).
NormalizeGitRemote ==
    /\ normPc = "init"
    /\ normOut' = normalizeGitRemote(remote)
    /\ normPc' = "done"
    /\ UNCHANGED <<remote>> /\ Others("remote")

-----------------------------------------------------------------------------
(* GetCIEnv: the CI environment collector.                                 *)

\* The longest process environment.
MaxEnviron == 2

substringOmitEnv ==
    << <<"S","E","C","R","E","T">>, <<"K","E","Y">>,
       <<"P","R","I","V","A","T","E">>, <<"P","A","S","S","W","O","R","D">>,
       <<"P","A","S","S","P","H","R","A","S","E">>, <<"C","R","E","D","S">>,
       <<"T","O","K","E","N">>, <<"A","U","T","H">>,
       <<"E","N","C">>, <<"J","W","T">>,
       <<"_","U","S","R">>, <<"_","P","S","W">> >>

explicitOmitEnv ==
    << \* BUILDKITE_S3_SECRET_ACCESS_KEY
       <<"B","U","I","L","D","K","I","T","E","_","S","3","_","S","E","C","R","E","T","_","A","C","C","E","S","S","_","K","E","Y">>,
       \* BUILDKITE_S3_ACCESS_KEY_ID
       <<"B","U","I","L","D","K","I","T","E","_","S","3","_","A","C","C","E","S","S","_","K","E","Y","_","I","D">>,
       \* BUILDKITE_S3_ACCESS_URL
       <<"B","U","I","L","D","K","I","T","E","_","S","3","_","A","C","C","E","S","S","_","U","R","L">>,
       \* BUILDKITE_COMMAND
       <<"B","U","I","L","D","K","I","T","E","_","C","O","M","M","A","N","D">>,
       \* BUILDKITE_SCRIPT_PATH
       <<"B","U","I","L","D","K","I","T","E","_","S","C","R","I","P","T","_","P","A","T","H">>,
       \* KEY
       <<"K","E","Y">>,
       \* CI_DEPLOY_PASSWORD
       <<"C","I","_","D","E","P","L","O","Y","_","P","A","S","S","W","O","R","D">>,
       \* CI_DEPLOY_USER
       <<"C","I","_","D","E","P","L","O","Y","_","U","S","E","R">>,
       \* CI_JOB_TOKEN
       <<"C","I","_","J","O","B","_","T","O","K","E","N">>,
       \* CI_JOB_JWT
       <<"C","I","_","J","O","B","_","J","W","T">>,
       \* CI_REGISTRY_USER
       <<"C","I","_","R","E","G","I","S","T","R","Y","_","U","S","E","R">>,
       \* CI_REGISTRY_PASSWORD
       <<"C","I","_","R","E","G","I","S","T","R","Y","_","P","A","S","S","W","O","R","D">>,
       \* CI_REGISTRY_USER
       <<"C","I","_","R","E","G","I","S","T","R","Y","_","U","S","E","R">> >>

\* The prefixes of the keys of a CI system (lines 180 to 185).
ciPrefixes ==
    << <<"G","I","T","H","U","B","_">>, <<"C","I","R","C","L","E","_">>,
       <<"G","I","T","L","A","B","_">>, <<"C","I","_">>,
       <<"B","U","I","L","D","K","I","T","E","_">>, <<"Z","O","D","I","A","C","_">> >>

SOLUBLE_METADATA_GIT_BRANCH ==
    <<"S","O","L","U","B","L","E","_","M","E","T","A","D","A","T","A","_","G","I","T","_","B","R","A","N","C","H">>

SOLUBLE_METADATA_GIT_COMMIT ==
    <<"S","O","L","U","B","L","E","_","M","E","T","A","D","A","T","A","_","G","I","T","_","C","O","M","M","I","T">>

SOLUBLE_METADATA_GIT_COMMIT_SHORT ==
    <<"S","O","L","U","B","L","E","_","M","E","T","A","D","A","T","A","_","G","I","T","_","C","O","M","M","I","T","_","S","H","O","R","T">>

SOLUBLE_METADATA_GIT_DESCRIBE ==
    <<"S","O","L","U","B","L","E","_","M","E","T","A","D","A","T","A","_","G","I","T","_","D","E","S","C","R","I","B","E">>

SOLUBLE_METADATA_GIT_REMOTE ==
    <<"S","O","L","U","B","L","E","_","M","E","T","A","D","A","T","A","_","G","I","T","_","R","E","M","O","T","E">>

SOLUBLE_METADATA_CI_SYSTEM ==
    <<"S","O","L","U","B","L","E","_","M","E","T","A","D","A","T","A","_","C","I","_","S","Y","S","T","E","M">>

SOLUBLE_METADATA_HOSTNAME ==
    <<"S","O","L","U","B","L","E","_","M","E","T","A","D","A","T","A","_","H","O","S","T","N","A","M","E">>

\* The keys of the map metadataCommands; the command of the i-th key is run
\* by the environment, which answers gitOut[i].
metadataCommands ==
    << SOLUBLE_METADATA_GIT_BRANCH, SOLUBLE_METADATA_GIT_COMMIT,
       SOLUBLE_METADATA_GIT_COMMIT_SHORT, SOLUBLE_METADATA_GIT_DESCRIBE,
       SOLUBLE_METADATA_GIT_REMOTE >>

\* A Go map[string]string is a function from its keys; a key that is absent
\* reads as "".
EmptyMap == [k \in {} |-> <<>>]

MapPut(m, k, v) == [x \in DOMAIN m \cup {k} |-> IF x = k THEN v ELSE m[x]]

MapGet(m, k) == IF k \in DOMAIN m THEN m[k] ELSE <<>>

\* strings.Split(s, sep) for a one-character sep.
RECURSIVE Split(_, _)
Split(s, sep) ==
    LET i == Index(s, sep)
    IN  IF i < 0 THEN <<s>>
        ELSE <<Slice(s, 0, i)>> \o Split(Slice(s, i + 1, Len(s)), sep)

\* Lines 157 to 161: allEnvs, where a later entry of a name replaces an
\* earlier one.
RECURSIVE allEnvsOf(_, _)
allEnvsOf(env, acc) ==
    IF env = <<>> THEN acc
    ELSE LET split == Split(Head(env), <<"=">>)
         IN  allEnvsOf(Tail(env), MapPut(acc, split[1], split[2]))

\* The mutant: only the substring list is consulted.
omitEnvSubstringsOnly(k) ==
    \E i \in 1..Len(substringOmitEnv) : Contains(k, substringOmitEnv[i])

\* Lines 167 to 176: whether the (uppercased) key k is skipped.
omitEnv(k) ==
    \/ \E i \in 1..Len(substringOmitEnv) : Contains(k, substringOmitEnv[i])
    \/ \E i \in 1..Len(explicitOmitEnv) : k = explicitOmitEnv[i]

\* Lines 180 to 185.
hasCIPrefix(k) == \E i \in 1..Len(ciPrefixes) : HasPrefix(k, ciPrefixes[i])

\* Lines 164 to 196: the loop over allEnvs, whose keys come in the order
\* `order`; acc is [values, ciSystem].
RECURSIVE envLoop(_, _, _)
envLoop(order, allEnvs, acc) ==
    IF order = <<>> THEN acc
    ELSE LET k == ToUpper(Head(order))
             v == allEnvs[Head(order)]
             idx == Index(k, <<"_">>)
             next ==
                 IF omitEnv(k) \/ ~hasCIPrefix(k) THEN acc
                 ELSE [values |-> MapPut(acc.values, k, v),
                       ciSystem |->
                           IF acc.ciSystem = <<>> /\ idx > 0
                           THEN Slice(k, 0, idx)
                           ELSE acc.ciSystem]
         IN  envLoop(Tail(order), allEnvs, next)

\* Lines 200 to 209: the metadata commands that succeed set their keys (the
\* keys are distinct, so the order of this loop does not show).
RECURSIVE gitLoop(_, _, _)
gitLoop(i, git, values) ==
    IF i > Len(metadataCommands) THEN values
    ELSE gitLoop(i + 1, git,
                 IF git[i].err THEN values
                 ELSE MapPut(values, metadataCommands[i], TrimSpace(git[i].out)))

\* GetCIEnv from line 162 on, for the map allEnvs and one order of iteration
\* over it.
GetCIEnv(allEnvs, order, git, host) ==
    LET looped == envLoop(order, allEnvs, [values |-> EmptyMap, ciSystem |-> <<>>])
        v1 == MapPut(looped.values, SOLUBLE_METADATA_CI_SYSTEM, looped.ciSystem)
        v2 == gitLoop(1, git, v1)
        s == normalizeGitRemote(MapGet(v2, SOLUBLE_METADATA_GIT_REMOTE))
        v3 == IF s # <<>> THEN MapPut(v2, SOLUBLE_METADATA_GIT_REMOTE, s) ELSE v2
        v4 == IF host.err THEN v3 ELSE MapPut(v3, SOLUBLE_METADATA_HOSTNAME, host.name)
    IN  IF s = Panic THEN [panic |-> TRUE, values |-> EmptyMap]
        ELSE [panic |-> FALSE, values |-> v4]

\* The orders a Go `range` over a map with these keys can take: every one.
Orders(keys) ==
    { o \in [1..Cardinality(keys) -> keys] :
        \A i, j \in 1..Cardinality(keys) : i # j => o[i] # o[j] }

\* The entries of the environment: keys of CI systems in either case, with
\* and without a sensitive term, a key set twice, two keys that differ only
\* in case, a value that holds "=", and a key of no CI system.
EnvEntries ==
    { \* CI_JOB_ID=x
      <<"C","I","_","J","O","B","_","I","D","=","x">>,
      \* CI_JOB_ID=y=z
      <<"C","I","_","J","O","B","_","I","D","=","y","=","z">>,
      \* ci_job_token=x
      <<"c","i","_","j","o","b","_","t","o","k","e","n","=","x">>,
      \* GITHUB_SHA=x
      <<"G","I","T","H","U","B","_","S","H","A","=","x">>,
      \* github_sha=y
      <<"g","i","t","h","u","b","_","s","h","a","=","y">>,
      \* CI_DEPLOY_USER=x
      <<"C","I","_","D","E","P","L","O","Y","_","U","S","E","R","=","x">>,
      \* CIRCLE_AGENCY=
      <<"C","I","R","C","L","E","_","A","G","E","N","C","Y","=">>,
      \* HOME=x
      <<"H","O","M","E","=","x">> }

RECURSIVE SeqsUpTo(_, _)
SeqsUpTo(S, n) ==
    IF n = 0 THEN {<<>>}
    ELSE LET shorter == SeqsUpTo(S, n - 1)
         IN  shorter \cup {Append(q, x) : q \in shorter, x \in S}

\* What the metadata commands answer (branch, commit, short commit,
\* describe, remote): outside a git repository each fails; inside one each
\* prints a line, and git describe fails without a commit.
GitAnswers ==
    LET fail == [err |-> TRUE, out |-> <<>>]
        ok(t) == [err |-> FALSE, out |-> t \o <<"\n">>]
        repo(r) == <<ok(<<"m","a","i","n">>), ok(<<"a","b","c">>), ok(<<"a">>), fail, ok(r)>>
    IN  { <<fail, fail, fail, fail, fail>>,
          repo(<<"g","i","t","@","h",":","o","/","p",".","g","i","t">>),
          repo(<<"h","t","t","p","s",":","/","/","h","/","p">>) }

\* What os.Hostname() answers.
NoHostname == [err |-> TRUE, name |-> <<>>]

Hostname(h) == [err |-> FALSE, name |-> h]

\* The machines GetCIEnv runs on: what git and the host answer there.
Machines ==
    LET answers == CHOOSE q \in [1..3 -> GitAnswers] : \A i, j \in 1..3 : i # j => q[i] # q[j]
    IN  { <<answers[1], NoHostname>>, <<answers[1], Hostname(<<"b","o","x">>)>>,
          <<answers[2], Hostname(<<"b","o","x">>)>>, <<answers[3], NoHostname>> }

\* ciEnv and ciPrev before a call has returned.
NoCIEnv == [panic |-> FALSE, values |-> EmptyMap]

InitEnv ==
    /\ environ \in SeqsUpTo(EnvEntries, MaxEnviron)
    /\ \E m \in Machines : gitOut = m[1] /\ hostname = m[2]
    /\ ciEnv = NoCIEnv
    /\ ciPrev = NoCIEnv
    /\ ciCalls = 0

\* A call GetCIEnv(dir): the environment, the directory, git's and the
\* host's answers stay as they are.
CallGetCIEnv ==
    /\ LET allEnvs == allEnvsOf(environ, EmptyMap)
       IN  \E order \in Orders(DOMAIN allEnvs) :
               ciEnv' = GetCIEnv(allEnvs, order, gitOut, hostname)
    /\ ciPrev' = ciEnv
    /\ ciCalls' = IF ciCalls < 2 THEN ciCalls + 1 ELSE 2
    /\ UNCHANGED <<environ, gitOut, hostname>> /\ Others("env")

-----------------------------------------------------------------------------
(* The docker runner: hasDocker, DockerTool.run, getArgs, appendProxyEnv.  *)

\* The largest exit code `docker info` is given in the model (the codes run
\* from -1, the process never started, to this one).
MaxExitCode == 130

ExitCodes == -1..MaxExitCode

\* Errors.  NoError is Go's nil error; DockerError(m) is the DockerError with
\* the text m; ExitError(c) is the *exec.ExitError of a command that exited
\* with the code c; StartError is the error of a command that never started.
NoError == [type |-> "nil"]

DockerError(m) == [type |-> "DockerError", msg |-> m]

ExitError(c) == [type |-> "ExitError", code |-> c]

StartError == [type |-> "exec.Error"]

\* DockerError.Is: whether the error it is asked about is a DockerError.
DockerErrorIs(d, err) == err.type = "DockerError"

\* errors.Is(err, target): err equals target, or err has an Is method that
\* accepts target (none of these errors wraps another).
errorsIs(err, target) ==
    /\ err # NoError
    /\ \/ err = target
       \/ err.type = "DockerError" /\ DockerErrorIs(err, target)

IsDockerError(err) == errorsIs(err, DockerError(""))

\* The mutant: the code 127 is not told apart.
hasDockerNo127(code) ==
    CASE code = 0 -> NoError
      [] code = 1 -> DockerError("the docker server is not running")
      [] OTHER -> DockerError("unknown error checking docker availability")

\* hasDocker, from the exit code of `docker info` on.
hasDocker(code) ==
    CASE code = 0 -> NoError
      [] code = 1 -> DockerError("the docker server is not running")
      [] code = 127 ->
           DockerError("the docker executable is not present, or is not in the PATH")
      [] OTHER -> DockerError("unknown error checking docker availability")

\* The proxy variables appendProxyEnv loops over.
proxyKeys ==
    << <<"H","T","T","P","_","P","R","O","X","Y">>,
       <<"H","T","T","P","S","_","P","R","O","X","Y">>,
       <<"N","O","_","P","R","O","X","Y">> >>

\* The mutant: the value is passed on the command line, as -e NAME=value.
RECURSIVE appendProxyEnvWithValue(_, _, _)
appendProxyEnvWithValue(env, args, i) ==
    IF i > Len(proxyKeys) THEN args
    ELSE LET k == proxyKeys[i]
             lk == ToLower(k)
             a1 == IF MapGet(env, k) # <<>>
                   THEN args \o << <<"-","e">>, k \o <<"=">> \o MapGet(env, k) >>
                   ELSE args
             a2 == IF MapGet(env, lk) # <<>>
                   THEN a1 \o << <<"-","e">>, lk \o <<"=">> \o MapGet(env, lk) >>
                   ELSE a1
         IN  appendProxyEnvWithValue(env, a2, i + 1)

\* appendProxyEnv(getenv, args), from the i-th proxy variable on.
RECURSIVE appendProxyEnv(_, _, _)
appendProxyEnv(env, args, i) ==
    IF i > Len(proxyKeys) THEN args
    ELSE LET k == proxyKeys[i]
             lk == ToLower(k)
             a1 == IF MapGet(env, k) # <<>> THEN args \o << <<"-","e">>, k >> ELSE args
             a2 == IF MapGet(env, lk) # <<>> THEN a1 \o << <<"-","e">>, lk >> ELSE a1
         IN  appendProxyEnv(env, a2, i + 1)

\* Lines 116 to 120: the arguments equal to the policy directory rewritten.
rewriteArgs(t) ==
    [i \in 1..Len(t.Args) |->
        IF t.Args[i] = t.PolicyDirectory THEN <<"/","p","o","l","i","c","y">>
        ELSE t.Args[i]]

\* The mutant: the caller's DockerArgs come first, before the volumes.
getArgsDockerArgsFirst(t, env) ==
    LET a0 == << <<"r","u","n">>, <<"-","-","r","m">> >> \o t.DockerArgs
        a1 == IF t.Directory # <<>>
              THEN a0 \o << <<"-","v">>, t.Directory \o <<":","/","s","r","c">>,
                            <<"-","w">>, <<"/","s","r","c">> >>
              ELSE a0
        a2 == IF t.PolicyDirectory # <<>>
              THEN a1 \o << <<"-","v">>,
                            t.PolicyDirectory \o <<":","/","p","o","l","i","c","y">> >>
              ELSE a1
        Args == IF t.PolicyDirectory # <<>> THEN rewriteArgs(t) ELSE t.Args
        a4 == appendProxyEnv(env, a2, 1)
        a5 == Append(a4, t.Image)
    IN  [args |-> a5 \o Args, Args |-> Args]

\* t.getArgs(getenv): [args, Args], the vector it returns and t.Args as it
\* leaves it (the rewriting is done in place).
getArgs(t, env) ==
    LET a0 == << <<"r","u","n">>, <<"-","-","r","m">> >>
        a1 == IF t.Directory # <<>>
              THEN a0 \o << <<"-","v">>, t.Directory \o <<":","/","s","r","c">>,
                            <<"-","w">>, <<"/","s","r","c">> >>
              ELSE a0
        a2 == IF t.PolicyDirectory # <<>>
              THEN a1 \o << <<"-","v">>,
                            t.PolicyDirectory \o <<":","/","p","o","l","i","c","y">> >>
              ELSE a1
        Args == IF t.PolicyDirectory # <<>> THEN rewriteArgs(t) ELSE t.Args
        a3 == a2 \o t.DockerArgs
        a4 == appendProxyEnv(env, a3, 1)
        a5 == Append(a4, t.Image)
    IN  [args |-> a5 \o Args, Args |-> Args]

\* Byte slices: nil, or the bytes written.
NilBytes == [nil |-> TRUE, data |-> ""]

Bytes(d) == [nil |-> FALSE, data |-> d]

\* cmd.Output(): the bytes of the buffer stdout was written to (nil when
\* nothing was written).
Captured(d) == IF d = "" THEN NilBytes ELSE Bytes(d)

\* The error of a command that ended with the code c (-1: never started).
RunError(c) == IF c = 0 THEN NoError ELSE IF c = -1 THEN StartError ELSE ExitError(c)

DockerCmd == <<"d","o","c","k","e","r">>

InfoCmd == <<DockerCmd, <<"i","n","f","o">> >>

PullCmd(image) == <<DockerCmd, <<"p","u","l","l">>, image>>

\* The names os.Getenv is asked for.
ProxyNames ==
    {proxyKeys[i] : i \in 1..Len(proxyKeys)} \cup {ToLower(proxyKeys[i]) : i \in 1..Len(proxyKeys)}

ProxyValues == { <<>>, <<"h","t","t","p",":","/","/","x">> }

\* The DockerTools of the model (Name and DefaultNoDockerName are not read
\* by run and getArgs and are left out).
Tools(stdouts) ==
    [ Image : { <<"i","m","g">> },
      DockerArgs : { <<>>, << <<"-","t">> >> },
      Args : { << <<"s","c","a","n">> >>,
               << <<"-","p">>, <<"/","p">>, <<"-","d">>, <<"/","r">> >> },
      PolicyDirectory : { <<>>, <<"/","p">> },
      Directory : { <<>>, <<"/","r">> },
      Stdout : stdouts,
      Stderr : {FALSE} ]

\* What the container can do: its exit code (-1: docker did not start) and
\* what it wrote to stdout.
RunOutcomes == [code : {-1, 0, 1, 3}, stdout : {"", "out"}] \ {[code |-> -1, stdout |-> "out"]}

NotCalled == [called |-> FALSE, args |-> <<>>, out |-> <<>>]

NoResult == [out |-> NilBytes, err |-> NoError]

InitDockerState ==
    /\ dpc = "start"
    /\ execLog = <<>>
    /\ probeCode = 0
    /\ probeErr = NoError
    /\ pullFailed = FALSE
    /\ runOut = NoResult
    /\ argv = <<>>
    /\ proxied = NotCalled

\* A run of t.run(skipPull).
InitDocker ==
    /\ getenv \in { [n \in ProxyNames |-> <<>>],
                    [n \in ProxyNames |-> IF n = proxyKeys[1] THEN <<"h","t","t","p",":","/","/","x">> ELSE <<>>],
                    [n \in ProxyNames |-> <<"h","t","t","p",":","/","/","x">>] }
    /\ tool \in { t \in Tools(BOOLEAN) : t.DockerArgs = <<>> }
    /\ skipPull \in BOOLEAN
    /\ container \in RunOutcomes
    /\ InitDockerState

\* Calls of t.getArgs(getenv) and appendProxyEnv(getenv, args) by themselves.
InitArgs ==
    /\ getenv \in [ProxyNames -> ProxyValues]
    /\ tool \in Tools({FALSE})
    /\ skipPull = FALSE
    /\ container = [code |-> 0, stdout |-> ""]
    /\ InitDockerState

\* The mutant: the error of the probe is logged and the run goes on.
DockerProbeGoesOn ==
    /\ dpc = "start"
    /\ \E code \in ExitCodes :
         /\ probeCode' = code
         /\ probeErr' = hasDocker(code)
         /\ execLog' = Append(execLog, InfoCmd)
         /\ dpc' = "probed"
         /\ UNCHANGED runOut
    /\ UNCHANGED <<getenv, tool, skipPull, pullFailed, argv, proxied, container>> /\ Others("docker")

\* Lines 80 to 82 of run: the probe, and the return on its error.
DockerProbe ==
    /\ dpc = "start"
    /\ \E code \in ExitCodes :
         /\ probeCode' = code
         /\ probeErr' = hasDocker(code)
         /\ execLog' = Append(execLog, InfoCmd)
         /\ IF hasDocker(code) # NoError
            THEN /\ runOut' = [out |-> NilBytes, err |-> hasDocker(code)]
                 /\ dpc' = "done"
            ELSE /\ dpc' = "probed"
                 /\ UNCHANGED runOut
    /\ UNCHANGED <<getenv, tool, skipPull, pullFailed, argv, proxied, container>> /\ Others("docker")

\* The mutant: a pull that fails ends the run with its error.
DockerPullFatal ==
    /\ dpc = "probed"
    /\ ~skipPull
    /\ execLog' = Append(execLog, PullCmd(tool.Image))
    /\ \E failed \in BOOLEAN :
         /\ pullFailed' = failed
         /\ IF failed
            THEN dpc' = "done" /\ runOut' = [out |-> NilBytes, err |-> ExitError(1)]
            ELSE dpc' = "pulled" /\ UNCHANGED runOut
    /\ UNCHANGED <<getenv, tool, skipPull, probeCode, probeErr, argv, proxied, container>>
    /\ Others("docker")

\* Lines 83 to 91: the pull, whose failure is logged.
DockerPull ==
    /\ dpc = "probed"
    /\ ~skipPull
    /\ execLog' = Append(execLog, PullCmd(tool.Image))
    /\ \E failed \in BOOLEAN : pullFailed' = failed
    /\ dpc' = "pulled"
    /\ UNCHANGED <<getenv, tool, skipPull, probeCode, probeErr, runOut, argv, proxied, container>> /\ Others("docker")

\* Lines 92 to 104: the container run.
DockerRun ==
    /\ \/ dpc = "pulled"
       \/ dpc = "probed" /\ skipPull
    /\ LET g == getArgs(tool, getenv)
       IN  /\ argv' = g.args
           /\ tool' = [tool EXCEPT !.Args = g.Args]
           /\ execLog' = Append(execLog, <<DockerCmd>> \o g.args)
    /\ runOut' = IF tool.Stdout
                  THEN [out |-> NilBytes, err |-> RunError(container.code)]
                  ELSE [out |-> Captured(container.stdout),
                        err |-> RunError(container.code)]
    /\ dpc' = "done"
    /\ UNCHANGED <<getenv, skipPull, probeCode, probeErr, pullFailed, proxied, container>> /\ Others("docker")

NextDocker == DockerProbe \/ DockerPull \/ DockerRun

\* A call t.getArgs(getenv).
GetArgs ==
    /\ LET g == getArgs(tool, getenv)
       IN  /\ argv' = g.args
           /\ tool' = [tool EXCEPT !.Args = g.Args]
    /\ UNCHANGED <<getenv, skipPull, dpc, execLog, probeCode, probeErr, pullFailed, runOut,
                   proxied, container>> /\ Others("docker")

\* A call appendProxyEnv(getenv, args), args being what getArgs returned
\* before (or the empty vector).
AppendProxyEnv ==
    /\ proxied' = [called |-> TRUE, args |-> argv, out |-> appendProxyEnv(getenv, argv, 1)]
    /\ UNCHANGED <<getenv, tool, skipPull, dpc, execLog, probeCode, probeErr, pullFailed,
                   runOut, argv, container>> /\ Others("docker")

NextArgs == GetArgs \/ AppendProxyEnv

-----------------------------------------------------------------------------
(* Results, and parseResults of the hadolint and terrascan adapters.       *)

\* The most entries in a tool's report.
MaxEntries == 3

\* Slices that can be nil: Findings, FileFingerprints.
NilList == [isNil |-> TRUE, elems |-> <<>>]

List(q) == [isNil |-> FALSE, elems |-> q]

\* Pointers that can be nil: Data, Assessment, AssessmentRaw.
NilPtr == [isNil |-> TRUE]

\* A Result with the three fields parseResults sets, the others zero.
NewResult(data, dir, findings) ==
    [ Data |-> data, Findings |-> findings, Values |-> EmptyMap, Directory |-> dir,
      Files |-> {}, FileFingerprints |-> NilList,
      Assessment |-> NilPtr, AssessmentRaw |-> NilPtr ]

\* t.IsExcluded(path): the exclusion predicate of the run.
IsExcluded(t, path) == path \in t.excluded

\* util.RemoveJNodeElementsIf(n, f): the array n without the elements f
\* accepts, the others in their order; f is given as the function of the
\* elements it is called with.
RemoveJNodeElementsIf(n, f) == SelectSeq(n, LAMBDA e : ~f[e])

\* The elements of an array.
Elements(n) == { n[i] : i \in 1..Len(n) }

\* Lines 299 to 309: the Finding of one entry of hadolint's report.
hadolintFinding(data) ==
    [ FilePath |-> data.file, Line |-> data.line, Description |-> <<>>,
      PartialFingerprint |-> <<>>, RepoPath |-> <<>>,
      Tool |-> [ rule_id |-> data.code, message |-> data.message,
                 severity |-> data.level, file |-> data.file,
                 line |-> Itoa(data.line) ] ]

\* The mutant: the loop does not skip the excluded files.
RECURSIVE hadolintFindingsAll(_, _)
hadolintFindingsAll(t, elems) ==
    IF elems = <<>> THEN <<>>
    ELSE <<hadolintFinding(Head(elems))>> \o hadolintFindingsAll(t, Tail(elems))

\* Lines 293 to 310: the loop over results.Elements().
RECURSIVE hadolintFindings(_, _)
hadolintFindings(t, elems) ==
    IF elems = <<>> THEN <<>>
    ELSE IF IsExcluded(t, Head(elems).file) THEN hadolintFindings(t, Tail(elems))
    ELSE <<hadolintFinding(Head(elems))>> \o hadolintFindings(t, Tail(elems))

\* hadolint's parseResults(results), report being the array results.
hadolintParseResults(t, report) ==
    LET findings == hadolintFindings(t, report)
        resultsArray ==
            RemoveJNodeElementsIf(report,
                [n \in Elements(report) |-> IsExcluded(t, n.file)])
    IN  NewResult(resultsArray, t.dir, List(findings))

\* Lines 98 to 107: the Finding of one violation of terrascan's report.
terrascanFinding(v) ==
    [ FilePath |-> v.file, Line |-> v.line, Description |-> v.description,
      PartialFingerprint |-> <<>>, RepoPath |-> <<>>,
      Tool |-> [ category |-> v.category, rule_id |-> v.rule_id,
                 severity |-> v.severity ] ]

\* terrascan's parseResults(n), n being the report: [results |-> [violations,
\* count]].
terrascanParseResults(t, n) ==
    IF Len(n.results.violations) > 0
    THEN LET violations ==
                 RemoveJNodeElementsIf(n.results.violations,
                     [e \in Elements(n.results.violations) |-> IsExcluded(t, e.file)])
             findings == [i \in 1..Len(violations) |-> terrascanFinding(violations[i])]
         IN  NewResult([n EXCEPT !.results.violations = violations], t.dir, List(findings))
    ELSE NewResult(n, t.dir, List(<<>>))

\* The files a tool reports on.
ReportedFiles == { <<"a",".","t","f">>, <<"d","/","b",".","y","m","l">> }

\* The entries of a report: a JSON object with the keys the two adapters
\* read (a key a tool does not write reads as "" or 0).
ReportEntries ==
    [ file : ReportedFiles, line : {0, 12},
      code : {<<"D","L","1">>}, message : {<<"m">>}, level : {<<"l","o","w">>},
      description : {<<"d">>}, category : {<<"c">>}, rule_id : {<<"R","1">>},
      severity : {<<"h","i","g","h">>} ]

NotParsed == [tool |-> "none", result |-> NewResult(<<>>, <<>>, NilList)]

InitParse ==
    /\ rawEntries \in SeqsUpTo(ReportEntries, MaxEntries)
    /\ adapter \in [dir : {<<"/","r">>}, excluded : SUBSET ReportedFiles]
    /\ parsed = NotParsed

\* hadolint's Tool.Run, line 288: t.parseResults(results).
HadolintParseResults ==
    /\ parsed.tool = "none"
    /\ parsed' = [tool |-> "hadolint", result |-> hadolintParseResults(adapter, rawEntries)]
    /\ UNCHANGED <<rawEntries, adapter>> /\ Others("parse")

\* terrascan's Tool.Run, line 82: t.parseResults(n).
TerrascanParseResults ==
    /\ parsed.tool = "none"
    /\ parsed' =
           [tool |-> "terrascan",
            result |-> terrascanParseResults(adapter,
                           [results |-> [violations |-> rawEntries,
                                         count |-> Len(rawEntries)]])]
    /\ UNCHANGED <<rawEntries, adapter>> /\ Others("parse")

NextParse == HadolintParseResults \/ TerrascanParseResults

-----------------------------------------------------------------------------
(* Result.UpdateFileFingerprints and Result.isMultiDocument.               *)

\* The most Findings of a Result.
MaxFindings == 3

\* filepath.IsAbs, on Unix.
IsAbs(path) == HasPrefix(path, <<"/">>)

\* filepath.Join(dir, path) of a clean dir and a clean path, which Clean
\* leaves as they are; an empty element is ignored.
Join(dir, path) ==
    IF dir = <<>> THEN path
    ELSE IF path = <<>> THEN dir
    ELSE dir \o <<"/">> \o path

\* A file is its lines and failAt, the number of lines read before the read
\* fails (-1: it does not fail; 0: the file cannot be opened).
NoFile == [lines |-> <<>>, failAt |-> 0]

ReadFile(fs, path) == IF path \in DOMAIN fs THEN fs[path] ELSE NoFile

\* util.ForEachLine(path, f): f is called with each line in turn until it
\* returns false, the file ends or the read fails; st is what f has
\* captured, and f is given as the function of st and the line.
ForEachLine(file, f, st0) ==
    LET RECURSIVE loop(_, _)
        loop(i, st) ==
            IF file.failAt = i - 1 THEN [st |-> st, err |-> TRUE]
            ELSE IF i > Len(file.lines) THEN [st |-> st, err |-> FALSE]
            ELSE LET r == f[st, file.lines[i]]
                 IN  IF r.continue THEN loop(i + 1, r.st)
                     ELSE [st |-> r.st, err |-> FALSE]
    IN  loop(1, st0)

\* The mutant: a separator on the first line counts.
multiDocumentLineFromFirst(st, line) ==
    LET lineNo == st.lineNo + 1
    IN  IF lineNo >= 1 /\ line = <<"-","-","-">>
        THEN [st |-> [lineNo |-> lineNo, multiDocument |-> TRUE], continue |-> FALSE]
        ELSE [st |-> [lineNo |-> lineNo, multiDocument |-> st.multiDocument],
              continue |-> TRUE]

\* Lines 319 to 326: the function isMultiDocument hands to ForEachLine.
multiDocumentLine(st, line) ==
    LET lineNo == st.lineNo + 1
    IN  IF lineNo > 1 /\ line = <<"-","-","-">>
        THEN [st |-> [lineNo |-> lineNo, multiDocument |-> TRUE], continue |-> FALSE]
        ELSE [st |-> [lineNo |-> lineNo, multiDocument |-> st.multiDocument],
              continue |-> TRUE]

\* r.isMultiDocument(path); the error of ForEachLine is logged only.
isMultiDocument(r, fs, path) ==
    LET p == IF ~IsAbs(path) THEN Join(r.Directory, path) ELSE path
        file == ReadFile(fs, p)
    IN  IF HasSuffix(p, <<".","y","a","m","l">>) \/ HasSuffix(p, <<".","y","m","l">>)
        THEN ForEachLine(file,
                 [st \in [lineNo : 0..Len(file.lines), multiDocument : BOOLEAN],
                  line \in Elements(file.lines) |-> multiDocumentLine(st, line)],
                 [lineNo |-> 0, multiDocument |-> FALSE]).st.multiDocument
        ELSE FALSE

\* r.Findings.ComputePartialFingerprints(dir): each Finding gets the
\* fingerprint derived for it.
ComputePartialFingerprints(findings, fps) ==
    [i \in 1..Len(findings) |-> [findings[i] EXCEPT !.PartialFingerprint = fps[i]]]

\* The mutant: the key is the file path alone.
fingerprintKeyOfPath(f) == f.FilePath

\* Line 285: fmt.Sprintf("%s:%d", f.FilePath, f.Line).
fingerprintKey(f) == f.FilePath \o <<":">> \o Itoa(f.Line)

\* Lines 284 to 295: the loop over r.Findings; acc is [m, multiDocument,
\* probes], the two maps and the calls of isMultiDocument made.
RECURSIVE findingsLoop(_, _, _, _)
findingsLoop(r, fs, findings, acc) ==
    IF findings = <<>> THEN acc
    ELSE LET f == Head(findings)
             key == fingerprintKey(f)
             probe == f.FilePath \notin DOMAIN acc.multiDocument
             md == isMultiDocument(r, fs, f.FilePath)
         IN  findingsLoop(r, fs, Tail(findings),
                 [ m |-> IF key \in DOMAIN acc.m THEN acc.m ELSE MapPut(acc.m, key, f),
                   multiDocument |-> IF probe
                                     THEN MapPut(acc.multiDocument, f.FilePath, md)
                                     ELSE acc.multiDocument,
                   probes |-> IF probe
                              THEN Append(acc.probes, [path |-> f.FilePath, md |-> md])
                              ELSE acc.probes ])

\* Lines 299 to 306: the FileFingerprint of a Finding of m.
FileFingerprintOf(f, multiDocument) ==
    [ FilePath |-> f.FilePath, PartialFingerprint |-> f.PartialFingerprint,
      Line |-> f.Line, RepoPath |-> f.RepoPath,
      MultiDocumentFile |-> /\ f.FilePath \in DOMAIN multiDocument
                            /\ multiDocument[f.FilePath] ]

\* A Finding of a file and a line, as a tool adapter builds it.
FindingAt(path, line) ==
    [ FilePath |-> path, Line |-> line, Description |-> <<>>,
      PartialFingerprint |-> <<>>, RepoPath |-> <<>>, Tool |-> EmptyMap ]

TextFile(lines) == [lines |-> lines, failAt |-> -1]

\* The Results of the fingerprint cases: Findings in two files and on two
\* lines, given in any order and any number of times, each with one of two
\* fingerprints; a Result with no Directory.
InitFingerprints ==
    /\ \E dir \in {<<>>, <<"/","r">>} :
         \E q \in SeqsUpTo({ FindingAt(path, line) :
                               path \in {<<"m",".","t","f">>, <<"b",".","y","m","l">>},
                               line \in {10, 20} }, MaxFindings) :
             result = NewResult(NilPtr, dir, List(q))
    /\ computed \in [1..Len(result.Findings.elems) -> {<<"p">>, <<"q">>}]
    /\ files = (<<"/","r","/","b",".","y","m","l">> :> TextFile(<< <<"a">>, <<"-","-","-">> >>))
    /\ probes = <<>>
    /\ updated = FALSE

\* What a YAML file can hold: a separator on line 1 only, one after line 1,
\* a line that is not exactly the separator, a read that fails before the
\* separator or after it; or there is no such file.
YamlFiles ==
    { TextFile(<< <<"-","-","-">>, <<"a">> >>),
      TextFile(<< <<"-","-","-">>, <<"a">>, <<"-","-","-">> >>),
      TextFile(<< <<"a">>, <<"-","-","-"," ">>, <<"-","-","-","-">> >>),
      [lines |-> << <<"a">>, <<"-","-","-">> >>, failAt |-> 1],
      [lines |-> << <<"a">>, <<"-","-","-">>, <<"b">> >>, failAt |-> 3],
      NoFile }

\* The Results of the multi-document cases: Findings in a YAML file of the
\* directory, a YAML file given by its absolute path and a JSON file.
InitMultiDocument ==
    /\ \E q \in SeqsUpTo({ FindingAt(<<"a",".","y","m","l">>, 10),
                           FindingAt(<<"a",".","y","m","l">>, 20),
                           FindingAt(<<"/","r","/","b",".","y","a","m","l">>, 10),
                           FindingAt(<<"c",".","j","s","o","n">>, 10) }, MaxFindings) :
         result = NewResult(NilPtr, <<"/","r">>, List(q))
    /\ computed = [i \in 1..Len(result.Findings.elems) |-> <<"p">>]
    /\ \E a \in YamlFiles, b \in {TextFile(<< <<"a">>, <<"-","-","-">> >>),
                                 TextFile(<< <<"a">> >>)} :
         files = (<<"/","r","/","a",".","y","m","l">> :> a)
                 @@ (<<"/","r","/","b",".","y","a","m","l">> :> b)
                 @@ (<<"/","r","/","c",".","j","s","o","n">>
                       :> TextFile(<< <<"a">>, <<"-","-","-">> >>))
    /\ probes = <<>>
    /\ updated = FALSE

\* r.UpdateFileFingerprints(); the range over the map m takes its keys in
\* any order.
UpdateFileFingerprints ==
    /\ ~updated
    /\ updated' = TRUE
    /\ IF result.Directory = <<>>
       THEN UNCHANGED <<result, probes>>
       ELSE LET findings == ComputePartialFingerprints(result.Findings.elems, computed)
                acc == findingsLoop(result, files, findings,
                           [m |-> EmptyMap, multiDocument |-> EmptyMap, probes |-> <<>>])
            IN  \E order \in Orders(DOMAIN acc.m) :
                    /\ result' =
                           [result EXCEPT
                              !.Findings.elems = findings,
                              !.FileFingerprints =
                                  List([i \in 1..Len(order) |->
                                          FileFingerprintOf(acc.m[order[i]],
                                                            acc.multiDocument)])]
                    /\ probes' = acc.probes
    /\ UNCHANGED <<files, computed>> /\ Others("fingerprints")

-----------------------------------------------------------------------------
(* Results.getFindingsJNode.                                               *)

\* The most Results of a run.
MaxResults == 2

\* json.Marshal of a Findings slice read back by jnode.FromJSON: a nil
\* slice is written as null, any other as the array of its Findings, each
\* an object of its fields.
JSONNull == [kind |-> "null"]

FindingsJSON(list) ==
    IF list.isNil THEN JSONNull
    ELSE [kind |-> "array",
          elems |-> [i \in 1..Len(list.elems) |->
                       [kind |-> "object", fields |-> list.elems[i]]]]

\* append(findings, more...): a nil slice stays nil when nothing is added.
appendFindings(findings, more) ==
    IF findings.isNil /\ more.elems = <<>> THEN findings
    ELSE List(findings.elems \o more.elems)

\* The mutant: the local Findings are taken whether or not there is an
\* Assessment.
localFindings(r) == r.Findings

\* Lines 355 to 359: the Findings getFindingsJNode takes of one Result.
resultFindings(r) ==
    IF ~r.Assessment.isNil THEN r.Assessment.Findings ELSE r.Findings

\* Lines 353 to 360: the loop over the Results.
RECURSIVE combineFindings(_, _)
combineFindings(rs, findings) ==
    IF rs = <<>> THEN findings
    ELSE combineFindings(Tail(rs), appendFindings(findings, resultFindings(Head(rs))))

\* results.getFindingsJNode(): json.Marshal does not fail on Findings, and
\* jnode.FromJSON reads what it wrote.
getFindingsJNode(rs) ==
    [node |-> FindingsJSON(combineFindings(rs, NilList)), err |-> NoError]

\* A Result after Upload: with the Assessment the server returned, or with
\* none.
UploadedResult(findings, assessment) ==
    [ NewResult(NilPtr, <<"/","r">>, findings) EXCEPT
        !.Assessment = assessment,
        !.AssessmentRaw =
            IF assessment.isNil THEN NilPtr
            ELSE [isNil |-> FALSE, findings |-> FindingsJSON(assessment.Findings)] ]

\* The Results of a run: the local Findings are nil, one or the same one
\* twice; the Assessment is nil, has no finding, has two, or has the local
\* one.
RunResults ==
    LET local == FindingAt(<<"m",".","t","f">>, 10)
        first == FindingAt(<<"m",".","t","f">>, 20)
        second == FindingAt(<<"b",".","y","m","l">>, 10)
    IN  { UploadedResult(findings, assessment) :
            findings \in {NilList, List(<<local>>), List(<<local, local>>)},
            assessment \in {NilPtr} \cup
                [isNil : {FALSE},
                 Findings : {NilList, List(<<first, second>>), List(<<local>>)}] }

NotCombined == [called |-> FALSE, node |-> JSONNull, err |-> NoError]

InitCombined ==
    /\ results \in SeqsUpTo(RunResults, MaxResults)
    /\ findingsNode = NotCombined

GetFindingsJNode ==
    /\ ~findingsNode.called
    /\ findingsNode' = [called |-> TRUE] @@ getFindingsJNode(results)
    /\ UNCHANGED <<results>> /\ Others("combined")

-----------------------------------------------------------------------------------------------------------------------------------------------------
(* Result.Upload and Results.getAssessmentsJNode.                          *)

repoFiles ==
    << <<".","l","a","c","e","w","o","r","k","/","c","o","n","f","i","g",".","y","m","l">>,
       <<".","s","o","l","u","b","l","e","/","c","o","n","f","i","g",".","y","m","l">>,
       <<"C","O","D","E","O","W","N","E","R","S">>,
       <<"d","o","c","s","/","C","O","D","E","O","W","N","E","R","S">>,
       <<".","g","i","t","h","u","b","/","C","O","D","E","O","W","N","E","R","S">> >>

\* filepath.Base of a clean path: what follows its last separator.
Base(path) == Slice(path, LastIndex(path, <<"/">>) + 1, Len(path))

\* xcp.WithFileFromReader(param, name, reader): a file part of the request.
WithFileFromReader(param, name, content) ==
    [param |-> param, name |-> name, content |-> content]

\* The mutant: a file is attached whether or not its name was attached
\* before.
RECURSIVE repoFileOptionsAll(_, _, _, _, _)
repoFileOptionsAll(dir, fs, i, names, options) ==
    IF i > Len(repoFiles) THEN options
    ELSE LET p == Join(dir, repoFiles[i])
         IN  IF p \in DOMAIN fs /\ fs[p] = "ok"
             THEN repoFileOptionsAll(dir, fs, i + 1, names,
                      Append(options,
                          WithFileFromReader(Base(repoFiles[i]), Base(repoFiles[i]), p)))
             ELSE repoFileOptionsAll(dir, fs, i + 1, names, options)

\* Lines 233 to 249: the loop over repoFiles from the i-th on.  A file is
\* "missing" (os.Stat fails), "empty", "unreadable" (os.Open fails) or
\* "ok"; names is the StringSet, whose Add answers whether the name is new.
RECURSIVE repoFileOptions(_, _, _, _, _)
repoFileOptions(dir, fs, i, names, options) ==
    IF i > Len(repoFiles) THEN options
    ELSE LET path == repoFiles[i]
             p == Join(dir, path)
             st == IF p \in DOMAIN fs THEN fs[p] ELSE "missing"
             name == Base(path)
         IN  IF st \in {"missing", "empty"}
             THEN repoFileOptions(dir, fs, i + 1, names, options)
             ELSE IF st = "ok"
             THEN IF name \notin names
                  THEN repoFileOptions(dir, fs, i + 1, names \cup {name},
                           Append(options, WithFileFromReader(name, name, p)))
                  ELSE repoFileOptions(dir, fs, i + 1, names, options)
             ELSE repoFileOptions(dir, fs, i + 1, names, options)

\* json.Marshal of Findings or of FileFingerprints: [d, err]; these types
\* hold strings, integers, booleans and maps of strings, which json.Marshal
\* does not refuse.
Marshal(list) == [d |-> FindingsJSON(list), err |-> NoError]

\* r.attachFindings(): the reader, nil when json.Marshal fails.
attachFindings(r) ==
    LET m == Marshal(r.Findings)
    IN  IF m.err # NoError THEN NilPtr ELSE [isNil |-> FALSE, d |-> m.d]

\* r.attachFingerprints(): the error of json.Marshal is logged and the
\* reader of what was written is returned.
attachFingerprints(r) ==
    LET m == Marshal(r.FileFingerprints)
    IN  [isNil |-> FALSE, d |-> m.d]

\* json.Unmarshal of an assessment object into an Assessment: [a, err]; it
\* fails when findings is not an array (or null).
Unmarshal(n) ==
    IF n.findings.kind = "array"
    THEN [a |-> [isNil |-> FALSE,
                 Findings |-> List([i \in 1..Len(n.findings.elems) |->
                                      n.findings.elems[i].fields])],
          err |-> NoError]
    ELSE IF n.findings.kind = "null"
    THEN [a |-> [isNil |-> FALSE, Findings |-> NilList], err |-> NoError]
    ELSE [a |-> [isNil |-> FALSE, Findings |-> NilList],
          err |-> [type |-> "json.UnmarshalTypeError"]]

\* results.getAssessmentsJNode(): the raw assessment of each Result that has
\* one, and otherwise an Assessment made of its Findings.
getAssessmentsJNode(rs) ==
    [node |-> [kind |-> "array",
               elems |-> [i \in 1..Len(rs) |->
                    IF ~rs[i].AssessmentRaw.isNil
                    THEN [kind |-> "object", findings |-> rs[i].AssessmentRaw.findings]
                    ELSE [kind |-> "object", findings |-> Marshal(rs[i].Findings).d]]],
     err |-> NoError]

\* What the server answers: an error; no assessment; an assessment that is
\* not an object; an assessment with one finding, with none, or garbled
\* (its findings are a string).
Responses ==
    { [err |-> [type |-> "http"], assessment |-> [kind |-> "missing"]] } \cup
    [ err : {NoError},
      assessment :
        { [kind |-> "missing"], [kind |-> "string"],
          [kind |-> "object",
           findings |-> FindingsJSON(List(<<FindingAt(<<"m",".","t","f">>, 7)>>))],
          [kind |-> "object", findings |-> JSONNull],
          [kind |-> "object", findings |-> [kind |-> "string"]] } ]

NotUploaded == [done |-> FALSE, err |-> NoError, options |-> <<>>]

NotAssessed == [called |-> FALSE, assessments |-> JSONNull, findings |-> JSONNull]

\* The Results uploaded: with or without a Directory; Findings nil, none,
\* one or two; with or without a repository that has a CODEOWNERS file.
InitUpload ==
    /\ result \in
         { NewResult([kind |-> "array", elems |-> <<>>], dir, findings) :
             dir \in {<<>>, <<"/","r">>},
             findings \in { NilList, List(<<>>),
                            List(<<FindingAt(<<"m",".","t","f">>, 10)>>),
                            List(<<FindingAt(<<"m",".","t","f">>, 10),
                                   FindingAt(<<"m",".","t","f">>, 20)>>) } }
    /\ computed = [i \in 1..Len(result.Findings.elems) |-> <<"p">>]
    /\ files = EmptyMap
    /\ probes = <<>>
    /\ updated = FALSE
    /\ repoState \in { [root |-> <<>>, files |-> EmptyMap],
                  [root |-> <<"/","r">>,
                   files |-> (Join(<<"/","r">>, repoFiles[3]) :> "ok")] }
    /\ response \in Responses
    /\ upload = NotUploaded
    /\ assessmentsNode = NotAssessed

\* The repositories uploaded from: no root found, or a root under which
\* each of the repoFiles is missing, empty, unreadable or ok.
InitRepoFiles ==
    /\ result = NewResult([kind |-> "array", elems |-> <<>>], <<"/","r">>,
                          List(<<FindingAt(<<"m",".","t","f">>, 10)>>))
    /\ computed = << <<"p">> >>
    /\ files = EmptyMap
    /\ probes = <<>>
    /\ updated = FALSE
    /\ \E root \in {<<>>, <<"/","r">>} :
         \E fs \in [ {Join(<<"/","r">>, repoFiles[i]) : i \in 1..Len(repoFiles)} ->
                       {"missing", "empty", "unreadable", "ok"} ] :
             repoState = [root |-> root, files |-> fs]
    /\ response = [err |-> NoError, assessment |-> [kind |-> "missing"]]
    /\ upload = NotUploaded
    /\ assessmentsNode = NotAssessed

\* r.Upload(client, org, name).
Upload ==
    /\ ~upload.done
    /\ LET options0 ==
               << [param |-> <<"W","i","t","h","C","I","E","n","v">>, name |-> <<>>,
                   content |-> result.Directory],
                  WithFileFromReader(<<"r","e","s","u","l","t","s","_","j","s","o","n">>,
                                     <<"r","e","s","u","l","t","s",".","j","s","o","n">>,
                                     result.Data) >>
           options1 ==
               IF repoState.root # <<>>
               THEN repoFileOptions(repoState.root, repoState.files, 1, {}, options0)
               ELSE options0
           rf == attachFindings(result)
           rp == attachFingerprints(result)
           options2 ==
               IF ~result.Findings.isNil
               THEN options1
                    \o (IF ~rf.isNil
                        THEN <<WithFileFromReader(
                                 <<"f","i","n","d","i","n","g","s","_","j","s","o","n">>,
                                 <<"f","i","n","d","i","n","g","s",".","j","s","o","n">>,
                                 rf.d)>>
                        ELSE <<>>)
                    \o (IF ~rp.isNil
                        THEN <<WithFileFromReader(
                                 <<"f","i","n","g","e","r","p","r","i","n","t","s","_","j","s","o","n">>,
                                 <<"f","i","n","g","e","r","p","r","i","n","t","s",".","j","s","o","n">>,
                                 rp.d)>>
                        ELSE <<>>)
               ELSE options1
       IN  upload' = [done |-> TRUE, err |-> response.err, options |-> options2]
    /\ result' =
           IF response.err = NoError /\ response.assessment.kind = "object"
           THEN LET u == Unmarshal(response.assessment)
                IN  [result EXCEPT
                       !.AssessmentRaw =
                           [isNil |-> FALSE, findings |-> response.assessment.findings],
                       !.Assessment = IF u.err # NoError THEN NilPtr ELSE u.a]
           ELSE result
    /\ UNCHANGED <<files, computed, probes, updated, repoState, response, assessmentsNode>>
    /\ Others("upload")

\* The documents of the run combined after the upload: getAssessmentsJNode
\* and getFindingsJNode of the Results, here the one Result.
GetAssessmentsJNode ==
    /\ upload.done
    /\ ~assessmentsNode.called
    /\ assessmentsNode' =
           [called |-> TRUE,
            assessments |-> getAssessmentsJNode(<<result>>).node,
            findings |-> getFindingsJNode(<<result>>).node]
    /\ UNCHANGED <<fingerprintVars, repoState, response, upload>>
    /\ Others("upload")

NextUpload == UpdateFileFingerprints \/ Upload \/ GetAssessmentsJNode

-----------------------------------------------------------------------------
(* Run of the hadolint and terrascan adapters.                             *)

\* util.ExitCode(err): the exit code of an *exec.ExitError (-1 stands for
\* what it answers for any other error).
ExitCode(err) == IF err.type = "ExitError" THEN err.code ELSE -1

\* jnode.FromJSON(d): [n, err]; the tool wrote nothing ("nil"), wrote its
\* report ("json", read back as the document doc) or wrote something else.
FromJSON(d, doc) ==
    IF d = "json" THEN [n |-> doc, err |-> NoError]
    ELSE [n |-> <<>>, err |-> [type |-> "json.SyntaxError"]]

\* How a tool can end.  setup is what precedes the execution in terrascan's
\* Run (the custom policies, the policy type, the installation); err and
\* out are what RunDocker or scan.Output return: the error of the docker
\* probe with no output, or the error of the exit code (-1: not started)
\* with what the tool wrote.
ToolExits ==
    [ setup : {"ok", "policies", "policy-type", "install"},
      err : {hasDocker(1)}, out : {"nil"}, version : {<<>>} ]
    \cup
    [ setup : {"ok"}, err : {RunError(c) : c \in {-1, 0, 1, 2, 3}},
      out : {"nil", "json", "garbage"}, version : {<<>>, <<"1">>} ]

NotRun ==
    [done |-> FALSE, tool |-> "none", hasResult |-> FALSE, err |-> NoError,
     result |-> NewResult(<<>>, <<>>, NilList)]

InitAdapters ==
    /\ rawEntries \in { q \in SeqsUpTo(ReportEntries, MaxEntries) : Len(q) <= 1 }
    /\ adapter \in [dir : {<<"/","r">>},
                    excluded : {{}, {<<"a",".","t","f">>}}]
    /\ parsed = NotParsed
    /\ toolExit \in ToolExits
    /\ runReturn = NotRun

\* What Run returns with an error: no Result.
Failed(t, err) == [NotRun EXCEPT !.done = TRUE, !.tool = t, !.err = err]

\* hadolint's Tool.Run: d, err are what t.RunDocker returned.
HadolintRun ==
    /\ ~runReturn.done
    /\ toolExit.setup = "ok"
    /\ LET d == toolExit.out
           err == toolExit.err
           report == FromJSON(d, rawEntries)
       IN  IF err # NoError /\ IsDockerError(err)
           THEN runReturn' = Failed("hadolint", err) /\ UNCHANGED parsed
           ELSE IF report.err # NoError
           THEN runReturn' = Failed("hadolint", report.err) /\ UNCHANGED parsed
           ELSE LET r == hadolintParseResults(adapter, report.n)
                IN  /\ parsed' = [tool |-> "hadolint", result |-> r]
                    /\ runReturn' = [done |-> TRUE, tool |-> "hadolint",
                                     hasResult |-> TRUE, result |-> r, err |-> NoError]
    /\ UNCHANGED <<rawEntries, adapter, toolExit>>
    /\ Others("adapters")

\* terrascan's Tool.Run: output, err are what scan.Output returned.
TerrascanRun ==
    /\ ~runReturn.done
    /\ toolExit.err.type # "DockerError" \/ toolExit.setup # "ok"
    /\ LET err == toolExit.err
           parse == FromJSON(toolExit.out,
                        [results |-> [violations |-> rawEntries,
                                      count |-> Len(rawEntries)]])
       IN  IF toolExit.setup # "ok"
           THEN runReturn' = Failed("terrascan", [type |-> toolExit.setup]) /\ UNCHANGED parsed
           ELSE IF err # NoError /\ ExitCode(err) # 3
           THEN runReturn' = Failed("terrascan", err) /\ UNCHANGED parsed
           ELSE IF parse.err # NoError
           THEN runReturn' = Failed("terrascan", parse.err) /\ UNCHANGED parsed
           ELSE LET r == terrascanParseResults(adapter, parse.n)
                    result1 ==
                        IF toolExit.version # <<>>
                        THEN [r EXCEPT !.Values =
                                 MapPut(@, "TERRASCAN_VERSION", toolExit.version)]
                        ELSE r
                IN  /\ parsed' = [tool |-> "terrascan", result |-> r]
                    /\ runReturn' = [done |-> TRUE, tool |-> "terrascan",
                                     hasResult |-> TRUE, result |-> result1, err |-> NoError]
    /\ UNCHANGED <<rawEntries, adapter, toolExit>>
    /\ Others("adapters")

NextAdapters == HadolintRun \/ TerrascanRun

-----------------------------------------------------------------------------
(* The specifications: one for each part of the program.                   *)

\* The parts of the program a specification does not run are at rest.
Idle(part) ==
    /\ IF part \in {"remote"} THEN TRUE
       ELSE /\ remote = <<>>
            /\ normOut = <<>>
            /\ normPc = "idle"
    /\ IF part \in {"env"} THEN TRUE
       ELSE /\ environ = <<>>
            /\ gitOut = <<>>
            /\ hostname = NoHostname
            /\ ciEnv = NoCIEnv
            /\ ciPrev = NoCIEnv
            /\ ciCalls = 0
    /\ IF part \in {"docker", "args"} THEN TRUE
       ELSE /\ getenv = EmptyMap
            /\ tool = [Image |-> <<>>, DockerArgs |-> <<>>, Args |-> <<>>, PolicyDirectory |-> <<>>,
                       Directory |-> <<>>, Stdout |-> FALSE, Stderr |-> FALSE]
            /\ skipPull = FALSE
            /\ container = [code |-> 0, stdout |-> ""]
            /\ InitDockerState
    /\ IF part \in {"parse", "adapters"} THEN TRUE
       ELSE /\ rawEntries = <<>>
            /\ adapter = [dir |-> <<>>, excluded |-> {}]
            /\ parsed = NotParsed
    /\ IF part \in {"fingerprints", "multidocument", "upload", "repofiles"} THEN TRUE
       ELSE /\ result = NewResult(NilPtr, <<>>, NilList)
            /\ computed = <<>>
            /\ files = EmptyMap
            /\ probes = <<>>
            /\ updated = TRUE
    /\ IF part \in {"combined"} THEN TRUE
       ELSE /\ results = <<>>
            /\ findingsNode = NotCombined
    /\ IF part \in {"upload", "repofiles"} THEN TRUE
       ELSE /\ repoState = [root |-> <<>>, files |-> EmptyMap]
            /\ response = [err |-> NoError, assessment |-> [kind |-> "missing"]]
            /\ upload = [NotUploaded EXCEPT !.done = TRUE]
            /\ assessmentsNode = NotAssessed
    /\ IF part \in {"adapters"} THEN TRUE
       ELSE /\ toolExit = [setup |-> "ok", err |-> NoError, out |-> "nil",
                           version |-> <<>>]
            /\ runReturn = [NotRun EXCEPT !.done = TRUE]

\* The inputs of one part, the other parts at rest.
InitOf(part) ==
    /\ CASE part = "remote" -> InitRemote
         [] part = "env" -> InitEnv
         [] part = "docker" -> InitDocker
         [] part = "args" -> InitArgs
         [] part = "parse" -> InitParse
         [] part = "fingerprints" -> InitFingerprints
         [] part = "multidocument" -> InitMultiDocument
         [] part = "combined" -> InitCombined
         [] part = "upload" -> InitUpload
         [] part = "repofiles" -> InitRepoFiles
         [] part = "adapters" -> InitAdapters
    /\ Idle(part)

SpecRemote == InitOf("remote") /\ [][NormalizeGitRemote]_vars

SpecEnv == InitOf("env") /\ [][CallGetCIEnv]_vars

SpecDocker == InitOf("docker") /\ [][NextDocker]_vars

\* run is sequential code: a step that can be taken is taken (the commands
\* it waits for end).
SpecDockerRuns == SpecDocker /\ WF_vars(NextDocker)

SpecArgs == InitOf("args") /\ [][NextArgs]_vars

SpecParse == InitOf("parse") /\ [][NextParse]_vars

SpecFingerprints == InitOf("fingerprints") /\ [][UpdateFileFingerprints]_vars

SpecMultiDocument == InitOf("multidocument") /\ [][UpdateFileFingerprints]_vars

SpecCombined == InitOf("combined") /\ [][GetFindingsJNode]_vars

SpecUpload == InitOf("upload") /\ [][NextUpload]_vars

SpecRepoFiles == InitOf("repofiles") /\ [][NextUpload]_vars

SpecAdapters == InitOf("adapters") /\ [][NextAdapters]_vars

-----------------------------------------------------------------------------
(* C9.                                                                     *)

\* s is git@HOST:PATH.git with this HOST and PATH, the ":" after HOST being
\* the first one (a host name holds no ":").
C9_IsSshRemote(s, host, path) ==
    /\ \A i \in 1..Len(host) : host[i] # ":"
    /\ s = <<"g","i","t","@">> \o host \o <<":">> \o path \o <<".","g","i","t">>

\* The ways to read s as git@HOST:PATH.git.
C9_SshReadings(s) ==
    { hp \in { <<Slice(s, 4, i), Slice(s, i + 1, Len(s) - 4)>> :
                 i \in 4..(IF Len(s) > 4 THEN Len(s) - 4 ELSE 4) } :
        C9_IsSshRemote(s, hp[1], hp[2]) }

\* C9 (first half): a remote git@HOST:PATH.git is rewritten to HOST/PATH.
C9_SshRemoteRewritten ==
    normPc = "done" =>
        \A hp \in C9_SshReadings(remote) : normOut = hp[1] \o <<"/">> \o hp[2]

\* C9: every remote git@HOST:PATH.git is rewritten to exactly HOST/PATH, and
\* every remote that is not of that shape (any http:// or https:// remote
\* among them) is returned unchanged.
C9_NormalizeGitRemote ==
    normPc = "done" =>
        /\ \A hp \in C9_SshReadings(remote) : normOut = hp[1] \o <<"/">> \o hp[2]
        /\ C9_SshReadings(remote) = {} => normOut = remote

-----------------------------------------------------------------------------
(* C1 and C10: GetCIEnv.                                                   *)

\* The sensitive terms, as the claim lists them.
C1_DenySubstrings ==
    { <<"S","E","C","R","E","T">>, <<"K","E","Y">>, <<"P","R","I","V","A","T","E">>,
      <<"P","A","S","S","W","O","R","D">>, <<"P","A","S","S","P","H","R","A","S","E">>,
      <<"C","R","E","D","S">>, <<"T","O","K","E","N">>, <<"A","U","T","H">>,
      <<"E","N","C">>, <<"J","W","T">>, <<"_","U","S","R">>, <<"_","P","S","W">> }

\* The key k is one the deny rules name.
C1_Denied(k) ==
    LET upper == ToUpper(k)
    IN  \/ \E t \in C1_DenySubstrings : Contains(upper, t)
        \/ \E i \in 1..Len(explicitOmitEnv) : upper = explicitOmitEnv[i]

\* The names of the entries of the environment.
C1_EnvironNames == { Split(environ[i], <<"=">>)[1] : i \in 1..Len(environ) }

\* C1: the map GetCIEnv returns holds no key whose uppercased form contains
\* a deny substring or equals an entry of the explicit deny list, also when
\* the key starts with an allowed CI prefix.
C1_NoDeniedKey ==
    (ciCalls > 0 /\ ~ciEnv.panic) => \A k \in DOMAIN ciEnv.values : ~C1_Denied(k)

\* GetCIEnv has returned for an environment with a denied key of a CI prefix
\* and a retained key of a CI prefix.
C1_Witness ==
    /\ ciCalls > 0
    /\ ~ciEnv.panic
    /\ \E n \in C1_EnvironNames : hasCIPrefix(ToUpper(n)) /\ C1_Denied(n)
    /\ \E k \in DOMAIN ciEnv.values : hasCIPrefix(k)

\* C10: for a fixed environment, directory, git and hostname answers, any
\* two calls of GetCIEnv return the same map (the CI-system name included).
C10_Deterministic ==
    ciCalls >= 2 => ciEnv = ciPrev

-----------------------------------------------------------------------------
(* C2, C3 and C4: the docker runner.                                       *)

C2_DaemonNotRunning == DockerError("the docker server is not running")

C2_DaemonNotInstalled ==
    DockerError("the docker executable is not present, or is not in the PATH")

C2_DaemonUnknownError == DockerError("unknown error checking docker availability")

\* C2: the probe turns the exit code 0 of `docker info` into no error, 1
\* into DaemonNotRunning, 127 into DaemonNotInstalled and every other code
\* (-1, the process never started, among them) into DaemonUnknownError, and
\* IsDockerError recognises each of the three errors.
C2_ProbeClassification ==
    dpc # "start" =>
        /\ probeCode = 0 => probeErr = NoError
        /\ probeCode = 1 => probeErr = C2_DaemonNotRunning
        /\ probeCode = 127 => probeErr = C2_DaemonNotInstalled
        /\ probeCode \notin {0, 1, 127} => probeErr = C2_DaemonUnknownError
        /\ probeErr # NoError => IsDockerError(probeErr)
        /\ \A e \in {C2_DaemonNotRunning, C2_DaemonNotInstalled, C2_DaemonUnknownError} :
               IsDockerError(e)

\* The probe has answered that the docker command is not found.
C2_Witness == dpc # "start" /\ probeCode = 127 /\ probeErr = C2_DaemonNotInstalled

C3_IsPull(cmd) == Len(cmd) >= 2 /\ cmd[1] = DockerCmd /\ cmd[2] = <<"p","u","l","l">>

C3_IsRun(cmd) == Len(cmd) >= 2 /\ cmd[1] = DockerCmd /\ cmd[2] = <<"r","u","n">>

\* C3: in run the probe comes before any pull and before the container run,
\* and when the probe returns an error run returns that error with nil
\* output and neither `docker pull` nor `docker run` is executed.
C3_ProbeFirst ==
    /\ \A i \in 1..Len(execLog) :
           (C3_IsPull(execLog[i]) \/ C3_IsRun(execLog[i])) =>
               \E j \in 1..(i - 1) : execLog[j] = InfoCmd
    /\ (dpc # "start" /\ probeErr # NoError) =>
           /\ dpc = "done"
           /\ runOut = [out |-> NilBytes, err |-> probeErr]
           /\ \A i \in 1..Len(execLog) : ~C3_IsPull(execLog[i]) /\ ~C3_IsRun(execLog[i])

\* run has returned the error of a failed probe.
C3_Witness == dpc = "done" /\ probeErr # NoError /\ runOut.err = probeErr

\* run has pulled and run the image after a successful probe.
C3_WitnessRun ==
    /\ dpc = "done"
    /\ probeErr = NoError
    /\ \E i, j \in 1..Len(execLog) : C3_IsPull(execLog[i]) /\ C3_IsRun(execLog[j])

\* The proxy variables, as the claim names them.
C4_Names ==
    { <<"H","T","T","P","_","P","R","O","X","Y">>,
      <<"H","T","T","P","S","_","P","R","O","X","Y">>,
      <<"N","O","_","P","R","O","X","Y">>,
      <<"h","t","t","p","_","p","r","o","x","y">>,
      <<"h","t","t","p","s","_","p","r","o","x","y">>,
      <<"n","o","_","p","r","o","x","y">> }

\* What appendProxyEnv appended to its argument.
C4_Appended == SubSeq(proxied.out, Len(proxied.args) + 1, Len(proxied.out))

\* C4: appendProxyEnv keeps the arguments it is given and appends, for each
\* of the six proxy variables, exactly one pair -e NAME if and only if the
\* variable is set and not empty; what it appends is -e and names only,
\* never the value of a variable.
C4_ProxyForwarding ==
    proxied.called =>
        /\ Len(proxied.out) >= Len(proxied.args)
        /\ SubSeq(proxied.out, 1, Len(proxied.args)) = proxied.args
        /\ Len(C4_Appended) % 2 = 0
        /\ \A i \in 1..Len(C4_Appended) :
               /\ i % 2 = 1 => C4_Appended[i] = <<"-","e">>
               /\ i % 2 = 0 => C4_Appended[i] \in C4_Names
               /\ \A n \in C4_Names : getenv[n] # <<>> => C4_Appended[i] # getenv[n]
        /\ \A n \in C4_Names :
               Cardinality({i \in 1..Len(C4_Appended) : i % 2 = 0 /\ C4_Appended[i] = n})
                   = IF getenv[n] # <<>> THEN 1 ELSE 0

\* appendProxyEnv has run with HTTP_PROXY set and http_proxy unset, and has
\* appended one -e HTTP_PROXY.
C4_Witness ==
    /\ proxied.called
    /\ getenv[<<"H","T","T","P","_","P","R","O","X","Y">>] # <<>>
    /\ getenv[<<"h","t","t","p","_","p","r","o","x","y">>] = <<>>
    /\ \E i \in 1..Len(C4_Appended) : C4_Appended[i] = <<"H","T","T","P","_","P","R","O","X","Y">>

-----------------------------------------------------------------------------
(* C5: parseResults.                                                       *)

\* The entries of the raw document of the Result parseResults returned.
C5_DataEntries ==
    IF parsed.tool = "hadolint" THEN parsed.result.Data
    ELSE parsed.result.Data.results.violations

\* The entries of the report whose file is not excluded, in their order.
C5_Remaining == SelectSeq(rawEntries, LAMBDA e : e.file \notin adapter.excluded)

\* C5: in both adapters the Result of parseResults has no Finding whose file
\* is excluded, its raw document has no entry whose file is excluded, and
\* the Findings are, one to one and in order, the entries that remain.
C5_ExclusionConsistent ==
    parsed.tool # "none" =>
        LET findings == parsed.result.Findings.elems
        IN  /\ \A i \in 1..Len(findings) : findings[i].FilePath \notin adapter.excluded
            /\ \A i \in 1..Len(C5_DataEntries) :
                   C5_DataEntries[i].file \notin adapter.excluded
            /\ C5_DataEntries = C5_Remaining
            /\ Len(findings) = Len(C5_Remaining)
            /\ \A i \in 1..Len(findings) :
                   /\ findings[i].FilePath = C5_Remaining[i].file
                   /\ findings[i].Line = C5_Remaining[i].line

\* parseResults has returned for a report with an excluded and a kept file.
C5_Witness ==
    /\ parsed.tool # "none"
    /\ \E i, j \in 1..Len(rawEntries) :
           /\ rawEntries[i].file \in adapter.excluded
           /\ rawEntries[j].file \notin adapter.excluded
    /\ Len(parsed.result.Findings.elems) > 0

-----------------------------------------------------------------------------
(* C6, C7: UpdateFileFingerprints.                                         *)

\* The (filePath, line) pairs of a list of Findings or of FileFingerprints.
C6_Pairs(q) == { <<q[i].FilePath, q[i].Line>> : i \in 1..Len(q) }

\* The first Finding of the list with the file path and the line of x.
C6_FirstSeen(q, x) ==
    q[CHOOSE i \in 1..Len(q) :
        /\ q[i].FilePath = x.FilePath /\ q[i].Line = x.Line
        /\ \A j \in 1..(i - 1) : q[j].FilePath # x.FilePath \/ q[j].Line # x.Line]

\* C6: after UpdateFileFingerprints on a Result with a Directory, the
\* FileFingerprints are one record for each distinct (filePath, line) of
\* the Findings and nothing else, and each record has the partial
\* fingerprint of the first Finding of its pair.
C6_OneRecordPerPair ==
    (updated /\ result.Directory # <<>>) =>
        LET findings == result.Findings.elems
            fingerprints == result.FileFingerprints.elems
        IN  /\ ~result.FileFingerprints.isNil
            /\ C6_Pairs(fingerprints) = C6_Pairs(findings)
            /\ Len(fingerprints) = Cardinality(C6_Pairs(findings))
            /\ \A i \in 1..Len(fingerprints) :
                   fingerprints[i].PartialFingerprint =
                       C6_FirstSeen(findings, fingerprints[i]).PartialFingerprint

\* Three Findings, two of them of one file and line with different
\* fingerprints and the third of the same file on another line, gave two
\* records.
C6_Witness ==
    /\ updated /\ result.Directory # <<>>
    /\ Len(result.Findings.elems) = 3
    /\ \E i, j, k \in 1..3 :
           LET f == result.Findings.elems
           IN  /\ i < j
               /\ f[i].FilePath = f[j].FilePath /\ f[i].Line = f[j].Line
               /\ f[i].PartialFingerprint # f[j].PartialFingerprint
               /\ f[k].FilePath = f[i].FilePath /\ f[k].Line # f[i].Line
    /\ Len(result.FileFingerprints.elems) = 2

\* The file a path of a Finding names: the path when it starts at the root,
\* otherwise the path under the Directory.
C7_FileOf(path) ==
    IF path # <<>> /\ path[1] = "/" THEN path ELSE result.Directory \o <<"/">> \o path

C7_EndsIn(path, ext) ==
    /\ Len(path) >= Len(ext)
    /\ SubSeq(path, Len(path) - Len(ext) + 1, Len(path)) = ext

\* The file of the path is a YAML file and a line after its first line, read
\* without a failure, is the separator.
C7_HasSeparator(path) ==
    /\ \/ C7_EndsIn(C7_FileOf(path), <<".","y","a","m","l">>)
       \/ C7_EndsIn(C7_FileOf(path), <<".","y","m","l">>)
    /\ C7_FileOf(path) \in DOMAIN files
    /\ LET file == files[C7_FileOf(path)]
       IN  \E i \in 2..Len(file.lines) :
               /\ file.lines[i] = <<"-","-","-">>
               /\ file.failAt = -1 \/ file.failAt >= i

C7_FindingPaths == { result.Findings.elems[i].FilePath : i \in 1..Len(result.Findings.elems) }

-----------------------------------------------------------------------------
(* C8: getFindingsJNode.                                                   *)

\* The elements of a JSON node: those of an array, none of any other node.
C8_Elements(node) == IF node.kind = "array" THEN node.elems ELSE <<>>

\* The Findings a Result contributes: its Assessment's when it has an
\* Assessment, its own otherwise.
C8_Chosen(i) ==
    IF results[i].Assessment.isNil THEN results[i].Findings.elems
    ELSE results[i].Assessment.Findings.elems

\* The number of Findings the Results before the i-th contribute.
RECURSIVE C8_Before(_)
C8_Before(i) == IF i = 1 THEN 0 ELSE C8_Before(i - 1) + Len(C8_Chosen(i - 1))

\* C8: the combined findings are the concatenation, in Result order, of each
\* Result's Assessment findings when it has an Assessment and of its local
\* Findings otherwise: as many as the chosen lists hold, none merged.
C8_CombinedFindings ==
    findingsNode.called =>
        LET combined == C8_Elements(findingsNode.node)
        IN  /\ findingsNode.err = NoError
            /\ Len(combined) = C8_Before(Len(results) + 1)
            /\ \A i \in 1..Len(results) :
                   \A j \in 1..Len(C8_Chosen(i)) :
                       combined[C8_Before(i) + j].fields = C8_Chosen(i)[j]

\* A Result with an Assessment of two findings and a Result with one local
\* Finding and no Assessment gave three findings.
C8_Witness ==
    /\ findingsNode.called
    /\ Len(results) = 2
    /\ ~results[1].Assessment.isNil
    /\ Len(results[1].Assessment.Findings.elems) = 2
    /\ Len(results[1].Findings.elems) = 1
    /\ results[2].Assessment.isNil
    /\ Len(results[2].Findings.elems) = 1
    /\ Len(C8_Elements(findingsNode.node)) = 3

-----------------------------------------------------------------------------
(* C16: DockerTool.run after the probe.                                    *)

\* run has returned after a successful probe: the pull was made iff skipPull
\* is false, the container run is the last command, and what run returns is
\* the outcome of the container (no output when Stdout is configured).
C16_Returned ==
    (dpc = "done" /\ probeErr = NoError) =>
        /\ Len(execLog) = (IF skipPull THEN 2 ELSE 3)
        /\ execLog[1] = InfoCmd
        /\ ~skipPull => C3_IsPull(execLog[2])
        /\ C3_IsRun(execLog[Len(execLog)])
        /\ (runOut.err = NoError) <=> (container.code = 0)
        /\ (container.code > 0) => runOut.err = ExitError(container.code)
        /\ IF tool.Stdout THEN runOut.out = NilBytes
           ELSE runOut.out.data = container.stdout

\* C16: once the probe succeeds the container run is always executed, after
\* a pull iff skipPull is false; a pull that fails does not end the run, and
\* run returns the outcome of the container run alone, with empty output
\* when a Stdout writer is configured and the captured stdout otherwise.
C16_RunAfterProbe ==
    /\ [](C16_Returned)
    /\ (dpc = "probed") ~> (dpc = "done" /\ C3_IsRun(execLog[Len(execLog)]))

\* The pull failed and run returned what the container wrote.
C16_Witness ==
    /\ dpc = "done"
    /\ probeErr = NoError
    /\ pullFailed
    /\ ~tool.Stdout
    /\ runOut = [out |-> Bytes("out"), err |-> NoError]

-----------------------------------------------------------------------------
(* C14: the argument vector of getArgs.                                    *)

\* The flags -e NAME of the proxy variables that are set, in the order of
\* the names.
RECURSIVE C14_ProxyFlags(_, _)
C14_ProxyFlags(env, names) ==
    IF names = <<>> THEN <<>>
    ELSE (IF env[Head(names)] # <<>> THEN << <<"-","e">>, Head(names) >> ELSE <<>>)
         \o C14_ProxyFlags(env, Tail(names))

\* The vector the claim describes, for the tool t as it is before the call.
C14_Vector(t, env) ==
    << <<"r","u","n">>, <<"-","-","r","m">> >>
    \o (IF t.Directory # <<>>
        THEN << <<"-","v">>, t.Directory \o <<":","/","s","r","c">>,
                <<"-","w">>, <<"/","s","r","c">> >>
        ELSE <<>>)
    \o (IF t.PolicyDirectory # <<>>
        THEN << <<"-","v">>, t.PolicyDirectory \o <<":","/","p","o","l","i","c","y">> >>
        ELSE <<>>)
    \o t.DockerArgs
    \o C14_ProxyFlags(env,
         << <<"H","T","T","P","_","P","R","O","X","Y">>,
            <<"h","t","t","p","_","p","r","o","x","y">>,
            <<"H","T","T","P","S","_","P","R","O","X","Y">>,
            <<"h","t","t","p","s","_","p","r","o","x","y">>,
            <<"N","O","_","P","R","O","X","Y">>,
            <<"n","o","_","p","r","o","x","y">> >>)
    \o <<t.Image>>
    \o [i \in 1..Len(t.Args) |->
          IF t.PolicyDirectory # <<>> /\ t.Args[i] = t.PolicyDirectory
          THEN <<"/","p","o","l","i","c","y">>
          ELSE t.Args[i]]

\* C14: a call of getArgs (a step that is not a call of appendProxyEnv)
\* returns run --rm, the directory volume and working directory iff
\* Directory is set, the policy volume iff PolicyDirectory is set, the
\* DockerArgs, the proxy flags, the image, and the arguments with those
\* equal to PolicyDirectory replaced by /policy and no other changed.
C14_ArgsOrder == [][proxied' = proxied => argv' = C14_Vector(tool, getenv)]_vars

\* getArgs has returned a vector with every part: both volumes, a caller's
\* flag, a proxy flag, and a rewritten argument after the image.
C14_Witness ==
    /\ tool.Directory # <<>> /\ tool.PolicyDirectory # <<>> /\ tool.DockerArgs # <<>>
    /\ Len(argv) = 16
    /\ argv[9] = <<"-","t">>
    /\ argv[10] = <<"-","e">>
    /\ argv[12] = tool.Image
    /\ argv[14] = <<"/","p","o","l","i","c","y">>

-----------------------------------------------------------------------------
(* C11, C12, C15: Upload.                                                  *)

\* The contents of the parts of the request with the parameter param.
C11_Parts(param) ==
    { upload.options[i].content :
        i \in { j \in 1..Len(upload.options) : upload.options[j].param = param } }

\* C11: Upload attaches the findings part only if there are Findings, and
\* the fingerprints part only if in addition the FileFingerprints were
\* computed (UpdateFileFingerprints ran with a Directory before the upload,
\* so that they are a list and not nil); otherwise the part is left out.
C11_PartsAttached ==
    upload.done =>
        /\ C11_Parts(<<"f","i","n","d","i","n","g","s","_","j","s","o","n">>) # {}
               => ~result.Findings.isNil
        /\ C11_Parts(<<"f","i","n","g","e","r","p","r","i","n","t","s","_","j","s","o","n">>) # {}
               => /\ ~result.Findings.isNil
                  /\ \A d \in C11_Parts(<<"f","i","n","g","e","r","p","r","i","n","t","s","_","j","s","o","n">>) :
                         d.kind = "array"

\* The server answered with an assessment object whose findings are not a
\* list.
C12_Garbled ==
    /\ response.err = NoError
    /\ response.assessment.kind = "object"
    /\ response.assessment.findings.kind = "string"

\* C12: when the request succeeds and the assessment of the response cannot
\* be parsed, Upload returns no error and leaves the Result as one with no
\* assessment: no Assessment, no raw assessment, so that the combined
\* findings are its local Findings and the combined assessments hold an
\* assessment made of its local Findings.
C12_GarbledIsNone ==
    (upload.done /\ C12_Garbled) =>
        /\ upload.err = NoError
        /\ result.Assessment.isNil
        /\ result.AssessmentRaw.isNil
        /\ assessmentsNode.called =>
               /\ assessmentsNode.findings = FindingsJSON(result.Findings)
               /\ assessmentsNode.assessments.elems[1].findings
                      = FindingsJSON(result.Findings)

\* The repoFiles of a basename, in the order they are probed.
C15_Paths(name) ==
    IF name = <<"c","o","n","f","i","g",".","y","m","l">>
    THEN << <<"/","r","/",".","l","a","c","e","w","o","r","k","/","c","o","n","f","i","g",".","y","m","l">>,
            <<"/","r","/",".","s","o","l","u","b","l","e","/","c","o","n","f","i","g",".","y","m","l">> >>
    ELSE << <<"/","r","/","C","O","D","E","O","W","N","E","R","S">>,
            <<"/","r","/","d","o","c","s","/","C","O","D","E","O","W","N","E","R","S">>,
            <<"/","r","/",".","g","i","t","h","u","b","/","C","O","D","E","O","W","N","E","R","S">> >>

\* The files of the basename that exist, are not empty and can be opened.
C15_Usable(name) ==
    SelectSeq(C15_Paths(name),
              LAMBDA p : p \in DOMAIN repoState.files /\ repoState.files[p] = "ok")

\* C15: Upload attaches at most one file for each basename, the first of
\* the fixed list that exists, is not empty and can be opened; no missing,
\* empty or unreadable file, and none at all without a repository root.
C15_OnePerBasename ==
    upload.done =>
        \A name \in { <<"c","o","n","f","i","g",".","y","m","l">>, <<"C","O","D","E","O","W","N","E","R","S">> } :
            /\ Cardinality({ i \in 1..Len(upload.options) :
                               upload.options[i].param = name }) <= 1
            /\ C11_Parts(name) =
                   IF repoState.root = <<>> \/ C15_Usable(name) = <<>> THEN {}
                   ELSE {C15_Usable(name)[1]}

\* CODEOWNERS is empty at the root and unreadable under docs, so that the
\* one under .github was attached; both config.yml are usable and the first
\* was attached.
C15_Witness ==
    /\ upload.done
    /\ repoState.root # <<>>
    /\ DOMAIN repoState.files # {}
    /\ repoState.files[<<"/","r","/","C","O","D","E","O","W","N","E","R","S">>] = "empty"
    /\ repoState.files[<<"/","r","/","d","o","c","s","/","C","O","D","E","O","W","N","E","R","S">>] = "unreadable"
    /\ repoState.files[<<"/","r","/",".","s","o","l","u","b","l","e","/","c","o","n","f","i","g",".","y","m","l">>] = "ok"
    /\ C11_Parts(<<"C","O","D","E","O","W","N","E","R","S">>)
           = { <<"/","r","/",".","g","i","t","h","u","b","/","C","O","D","E","O","W","N","E","R","S">> }
    /\ C11_Parts(<<"c","o","n","f","i","g",".","y","m","l">>)
           = { <<"/","r","/",".","l","a","c","e","w","o","r","k","/","c","o","n","f","i","g",".","y","m","l">> }

-----------------------------------------------------------------------------
(* C13: the adapters' Run on daemon and execution errors.                  *)

\* The exit codes Run is to read as "findings present": terrascan's 3, and
\* for hadolint, whose Run names no code, the 1 hadolint exits with when it
\* reports findings.
C13_FindingsPresent(t, err) ==
    /\ err.type = "ExitError"
    /\ \/ t = "terrascan" /\ err.code = 3
       \/ t = "hadolint" /\ err.code = 1

\* C13: when the tool ends with a daemon error or with an execution error
\* (a start failure or an exit code that is not a known findings-present
\* code), Run returns that same error, returns no Result and has not parsed
\* the tool's output.
C13_ErrorsAbortRun ==
    (/\ runReturn.done
     /\ toolExit.setup = "ok"
     /\ toolExit.err # NoError
     /\ ~C13_FindingsPresent(runReturn.tool, toolExit.err))
    => (/\ runReturn.err = toolExit.err
        /\ ~runReturn.hasResult
        /\ parsed.tool = "none")

====
